---- MODULE Spec2Model ----
(***************************************************************************)
(* A model of the JSLibrary helper functions: _case, _wait, _FiletoJson,   *)
(* _createShellCommands, _forEachInObject, _removeDuplicates,              *)
(* _ObjectToArray, _ArrayToObject, _filterArray and _insertAt.             *)
(*                                                                         *)
(* JavaScript values are records [t |-> <type tag>, v |-> <payload>].      *)
(* Every library call is one action; the host's timers and child           *)
(* processes complete in actions of their own.                             *)
(***************************************************************************)
EXTENDS Integers, Sequences, FiniteSets

VARIABLES
    caseCall,      \* the last _case call: its arguments and its outcome
    waits,         \* the _wait calls made so far: promise and timer of each
    fileCall,      \* the last _FiletoJson call: its arguments and its outcome
    shell,         \* the mapping built by _createShellCommands (or "unbuilt")
    invocations,   \* the invocations of the callables of that mapping
    procs,         \* the child processes launched by exec
    libCall        \* the last call of an array or object helper, and its outcome

vars == <<caseCall, waits, fileCall, shell, invocations, procs, libCall>>

(***************************************************************************)
(* Bounds of the model.                                                    *)
(***************************************************************************)
MaxCouples == 3
MaxValue == 2
MaxWaits == 2
MaxCommands == 2
MaxInvocations == 3
MaxKeys == 2
MaxLen == 3

(***************************************************************************)
(* JavaScript values.                                                      *)
(***************************************************************************)
Undefined == [t |-> "undefined", v |-> "undefined"]
Null == [t |-> "null", v |-> "null"]
Num(n) == [t |-> "number", v |-> n]
Str(s) == [t |-> "string", v |-> s]
Bool(b) == [t |-> "boolean", v |-> b]
Arr(items) == [t |-> "array", v |-> items]
Obj(name) == [t |-> "object", v |-> name]
\* a function value: its body's name and the value its closure captured
Fn(name, env) == [t |-> "function", v |-> <<name, env>>]
\* an Error object: constructor name and message
Err(name, message) == [t |-> "error", v |-> <<name, message>>]

\* the number NaN
NaN == [t |-> "NaN", v |-> "NaN"]

\* a === b on primitive values: NaN is equal to nothing, itself included
StrictEquals(a, b) == a.t # "NaN" /\ a.t = b.t /\ a.v = b.v

\* SameValueZero(a, b), the comparison of Array.prototype.includes
SameValueZero(a, b) == a.t = b.t /\ a.v = b.v

\* typeof x === 'function'
IsFunction(x) == x.t = "function"

\* ToBoolean(x), as `if (caseFunc)` applies it
Truthy(x) ==
    CASE x.t = "undefined" -> FALSE
      [] x.t = "null" -> FALSE
      [] x.t = "number" -> x.v # 0
      [] x.t = "string" -> x.v # ""
      [] x.t = "boolean" -> x.v
      [] x.t = "NaN" -> FALSE
      [] OTHER -> TRUE

DigitChar(d) ==
    CASE d = 0 -> "0" [] d = 1 -> "1" [] d = 2 -> "2" [] d = 3 -> "3"
      [] d = 4 -> "4" [] d = 5 -> "5" [] d = 6 -> "6" [] d = 7 -> "7"
      [] d = 8 -> "8" [] d = 9 -> "9"

RECURSIVE NatToString(_)
NatToString(n) ==
    IF n < 10 THEN DigitChar(n)
    ELSE NatToString(n \div 10) \o DigitChar(n % 10)

\* ToString(x), as a template literal and a property access apply it
ToString(x) ==
    CASE x.t = "string" -> x.v
      [] x.t = "number" -> IF x.v < 0 THEN "-" \o NatToString(-x.v)
                           ELSE NatToString(x.v)
      [] x.t = "undefined" -> "undefined"
      [] x.t = "null" -> "null"
      [] x.t = "boolean" -> IF x.v THEN "true" ELSE "false"
      [] x.t = "NaN" -> "NaN"
      [] OTHER -> "[object Object]"

\* ToPropertyKey(x): obj[x] reads and writes the property named ToString(x)
ToPropertyKey(x) == ToString(x)

(***************************************************************************)
(* Objects created by the literal {}: own properties, and the properties   *)
(* inherited from Object.prototype.                                        *)
(***************************************************************************)
EmptyObject == [k \in {} |-> Undefined]

\* the members of Object.prototype that the model's property names reach
ObjectPrototype(k) ==
    CASE k = "toString" -> Fn("Object.prototype.toString", Undefined)
      [] k = "constructor" -> Fn("Object", Undefined)
      [] k = "hasOwnProperty" -> Fn("Object.prototype.hasOwnProperty", Undefined)
      [] k = "__proto__" -> Obj("Object.prototype")
      [] OTHER -> Undefined

\* obj[k] = val (k is never "__proto__" in the inputs of the model)
Put(obj, k, val) ==
    [p \in (DOMAIN obj) \cup {k} |-> IF p = k THEN val ELSE obj[p]]

\* obj[k]: the own property, else the inherited one, else undefined
Get(obj, k) == IF k \in DOMAIN obj THEN obj[k] ELSE ObjectPrototype(k)

(***************************************************************************)
(* Calling a function value with no arguments and this = undefined.        *)
(* The outcome is a completion: returned or thrown value, and the          *)
(* assignments the body made to the enclosing timeInMs.                    *)
(***************************************************************************)
Return(val, assigned) == [kind |-> "return", value |-> val, assigned |-> assigned]
Throw(val) == [kind |-> "throw", value |-> val, assigned |-> <<>>]

NoCaseMessage(variable) == "No case found for key: " \o ToString(variable)

Invoke(f) ==
    LET name == f.v[1]
        env == f.v[2]
    IN CASE name = "returns" -> Return(Str("result of " \o ToString(env)), <<>>)
         [] name = "throws" -> Throw(Err("Error", "failure of " \o ToString(env)))
         \* the fallback _case synthesizes
         [] name = "defaultFunc" -> Throw(Err("Error", NoCaseMessage(env)))
         \* the closures of _wait
         [] name = "ms" -> Return(env, <<env>>)
         [] name = "s" -> Return(Num(env.v * 1000), <<Num(env.v * 1000)>>)
         [] name = "m" -> Return(Num(env.v * 1000 * 60), <<Num(env.v * 1000 * 60)>>)
         [] name = "h" ->
              Return(Num(env.v * 1000 * 60 * 60), <<Num(env.v * 1000 * 60 * 60)>>)
         [] name = "otherwise" -> Return(Undefined, <<env>>)
         \* Object.prototype members called with this = undefined
         [] name = "Object.prototype.toString" ->
              Return(Str("[object Undefined]"), <<>>)
         [] name = "Object" -> Return(Obj("{}"), <<>>)
         [] name = "Object.prototype.hasOwnProperty" ->
              Throw(Err("TypeError", "Cannot convert undefined or null to object"))

(***************************************************************************)
(* _case                                                                   *)
(***************************************************************************)
\* couples.reduce((acc, [caseKey, caseFunc]) => { acc[caseKey] = caseFunc; ... }, {})
RECURSIVE reduce(_, _)
reduce(couples, acc) ==
    IF couples = <<>> THEN acc
    ELSE LET caseKey == Head(couples).v[1]
             caseFunc == Head(couples).v[2]
         IN reduce(Tail(couples), Put(acc, ToPropertyKey(caseKey), caseFunc))

\* [caseKey, caseFunc] = x  succeeds only on an iterable x
Iterable(x) == x.t = "array"

\* A call's outcome: the completion, and the callables invoked with the
\* number of arguments each one received.
Outcome(completion, calls) ==
    [kind |-> completion.kind, value |-> completion.value,
     assigned |-> completion.assigned, calls |-> calls]

CallOf(f) == [callee |-> f, argc |-> 0]

_case(variable, args) ==
    LET n == Len(args)
        popped == IF n = 0 THEN Undefined ELSE args[n]
        couples == IF IsFunction(popped) THEN SubSeq(args, 1, n - 1)
                   ELSE IF n = 0 THEN <<Undefined>> ELSE args
        defaultFunc == IF IsFunction(popped) THEN popped
                       ELSE Fn("defaultFunc", variable)
    IN IF \E i \in 1..Len(couples) : ~Iterable(couples[i])
       THEN Outcome(Throw(Err("TypeError", "undefined is not iterable")), <<>>)
       ELSE LET switchLike == reduce(couples, EmptyObject)
                caseFunc == Get(switchLike, ToPropertyKey(variable))
            IN IF Truthy(caseFunc)
               THEN IF IsFunction(caseFunc)
                    THEN Outcome(Invoke(caseFunc), <<CallOf(caseFunc)>>)
                    ELSE Outcome(Throw(Err("TypeError", "caseFunc is not a function")),
                                 <<>>)
               ELSE Outcome(Invoke(defaultFunc), <<CallOf(defaultFunc)>>)

\* The inputs of the model's _case calls.
CaseKeys == {Num(1), Str("1"), Str("a")}
Subjects == CaseKeys \cup {Num(2), Str("b"), Str("toString"), Str("constructor"),
                           Str("hasOwnProperty"), Str("__proto__")}
Handlers == {Fn("returns", Num(1)), Fn("returns", Num(2)), Fn("throws", Num(3))}
Fallbacks == {Fn("returns", Str("fallback")), Fn("throws", Str("fallback"))}
Couples == {Arr(<<k, h>>) : k \in CaseKeys, h \in Handlers}
CoupleLists == UNION {[1..n -> Couples] : n \in 0..MaxCouples}
CaseArgs == CoupleLists \cup {Append(cs, f) : cs \in CoupleLists, f \in Fallbacks}

\* the state of a component no call has been made to
NoCall == [called |-> FALSE]

\* _case is applied once to the arguments drawn initially
CaseCall ==
    /\ ~caseCall.called
    /\ caseCall' = [called |-> TRUE, variable |-> caseCall.variable,
                    args |-> caseCall.args,
                    result |-> _case(caseCall.variable, caseCall.args)]
    /\ UNCHANGED <<waits, fileCall, shell, invocations, procs, libCall>>

InitCase ==
    /\ caseCall \in {[called |-> FALSE, variable |-> variable, args |-> args] :
                        variable \in Subjects, args \in CaseArgs}
    /\ waits = <<>>
    /\ fileCall = NoCall
    /\ shell = [built |-> FALSE]
    /\ invocations = <<>>
    /\ procs = <<>>
    /\ libCall = NoCall

NextCase == CaseCall

SpecCase == InitCase /\ [][NextCase]_vars

(***************************************************************************)
(* Properties of _case.                                                    *)
(***************************************************************************)
\* whether the call was given a fallback handler, and the pairs it was given
HasFallback(args) == Len(args) > 0 /\ IsFunction(args[Len(args)])
PairsOf(args) == IF HasFallback(args) THEN SubSeq(args, 1, Len(args) - 1) ELSE args
KeyOf(pair) == pair.v[1]
HandlerOf(pair) == pair.v[2]
\* the positions of the pairs whose key is strictly equal to the subject
Matching(variable, args) ==
    {i \in 1..Len(PairsOf(args)) : StrictEquals(KeyOf(PairsOf(args)[i]), variable)}
Last(S) == CHOOSE i \in S : \A j \in S : j <= i
Callees(result) == {result.calls[i].callee : i \in 1..Len(result.calls)}

\* C1: _case invokes a pair's handler only when that pair's caseKey is
\* strictly equal (===) to the subject; a key of another type never selects.
C1_StrictKeyMatch ==
    caseCall.called =>
        \A f \in Callees(caseCall.result) :
            (\E i \in 1..Len(PairsOf(caseCall.args)) :
                HandlerOf(PairsOf(caseCall.args)[i]) = f)
            => \E i \in Matching(caseCall.variable, caseCall.args) :
                HandlerOf(PairsOf(caseCall.args)[i]) = f

\* C2: with a fallback given and no registered key equal to the subject,
\* _case invokes the fallback and returns the fallback's result.
C2_FallbackWhenNoMatch ==
    (/\ caseCall.called
     /\ HasFallback(caseCall.args)
     /\ Matching(caseCall.variable, caseCall.args) = {})
    => LET fallback == caseCall.args[Len(caseCall.args)]
       IN caseCall.result = Outcome(Invoke(fallback), <<CallOf(fallback)>>)

\* C3: without a fallback (no pairs at all included) and with no key equal
\* to the subject, _case fails with Error 'No case found for key: <subject>'
\* and with no other error.
C3_UnmatchedCaseError ==
    (/\ caseCall.called
     /\ ~HasFallback(caseCall.args)
     /\ Matching(caseCall.variable, caseCall.args) = {})
    => /\ caseCall.result.kind = "throw"
       /\ caseCall.result.value =
            Err("Error", "No case found for key: " \o ToString(caseCall.variable))

\* C4: when several pairs share the key the subject matches, the handler of
\* the last such pair is the one invoked, and no other handler is.
C4_LastRegistrationWins ==
    (/\ caseCall.called
     /\ Cardinality(Matching(caseCall.variable, caseCall.args)) >= 2)
    => LET last == Last(Matching(caseCall.variable, caseCall.args))
       IN caseCall.result.calls =
            <<CallOf(HandlerOf(PairsOf(caseCall.args)[last]))>>

\* C5: every _case call invokes exactly one callable, the selected handler
\* or the fallback, once and with no arguments, and the call completes the
\* way that callable completed (its error propagates unchanged).
C5_ExactlyOneCallable ==
    caseCall.called =>
        LET calls == caseCall.result.calls
            pairs == PairsOf(caseCall.args)
            fallback == IF HasFallback(caseCall.args)
                        THEN caseCall.args[Len(caseCall.args)]
                        ELSE Fn("defaultFunc", caseCall.variable)
        IN /\ Len(calls) = 1
           /\ calls[1].argc = 0
           /\ \/ calls[1].callee = fallback
              \/ \E i \in 1..Len(pairs) : HandlerOf(pairs[i]) = calls[1].callee
           /\ caseCall.result = Outcome(Invoke(calls[1].callee), calls)

(***************************************************************************)
(* Promises: new Promise(executor), and the resolve and reject functions   *)
(* handed to the executor, which act on a pending promise only.            *)
(***************************************************************************)
PendingPromise == [state |-> "pending", value |-> Undefined]
Resolve(promise, val) ==
    IF promise.state = "pending" THEN [state |-> "fulfilled", value |-> val]
    ELSE promise
Reject(promise, reason) ==
    IF promise.state = "pending" THEN [state |-> "rejected", value |-> reason]
    ELSE promise

(***************************************************************************)
(* _wait                                                                   *)
(***************************************************************************)
NoTimer == [state |-> "none", delay |-> Undefined]

\* The executor of _wait: _case over the unit, then setTimeout(resolve,
\* timeInMs). An executor that throws rejects the promise with the error.
_wait(value, unit) ==
    LET dispatched ==
            _case(unit, <<Arr(<<Str("ms"), Fn("ms", value)>>),
                          Arr(<<Str("s"), Fn("s", value)>>),
                          Arr(<<Str("m"), Fn("m", value)>>),
                          Arr(<<Str("h"), Fn("h", value)>>),
                          Fn("otherwise", value)>>)
        timeInMs == IF dispatched.assigned = <<>> THEN Undefined
                    ELSE dispatched.assigned[Len(dispatched.assigned)]
    IN IF dispatched.kind = "throw"
       THEN [promise |-> Reject(PendingPromise, dispatched.value),
             timer |-> NoTimer]
       ELSE [promise |-> PendingPromise,
             timer |-> [state |-> "scheduled", delay |-> timeInMs]]

WaitValues == {Num(n) : n \in 0..MaxValue}
WaitUnits == {Str("ms"), Str("s"), Str("m"), Str("h"), Str("bad"),
              Str("toString"), Str("hasOwnProperty"), Str("__proto__")}

\* a caller calls _wait(value, unit)
WaitCall(value, unit) ==
    /\ Len(waits) < MaxWaits
    /\ LET made == _wait(value, unit)
       IN waits' = Append(waits, [value |-> value, unit |-> unit,
                                  promise |-> made.promise, timer |-> made.timer,
                                  resolveCalls |-> 0])
    /\ UNCHANGED <<caseCall, fileCall, shell, invocations, procs, libCall>>

\* the host fires a scheduled timer: it calls resolve with no argument
TimerFire(i) ==
    /\ waits[i].timer.state = "scheduled"
    /\ waits' = [waits EXCEPT ![i].timer.state = "fired",
                              ![i].promise = Resolve(@, Undefined),
                              ![i].resolveCalls = @ + 1]
    /\ UNCHANGED <<caseCall, fileCall, shell, invocations, procs, libCall>>

Init ==
    /\ caseCall = NoCall
    /\ waits = <<>>
    /\ fileCall = NoCall
    /\ shell = [built |-> FALSE]
    /\ invocations = <<>>
    /\ procs = <<>>
    /\ libCall = NoCall

NextWait ==
    \/ \E value \in WaitValues, unit \in WaitUnits : WaitCall(value, unit)
    \/ \E i \in 1..Len(waits) : TimerFire(i)

SpecWait == Init /\ [][NextWait]_vars

(***************************************************************************)
(* Properties of _wait.                                                    *)
(***************************************************************************)
\* the duration in milliseconds the contract gives for a value and a unit
DurationOf(value, unit) ==
    CASE unit = Str("ms") -> value.v
      [] unit = Str("s") -> value.v * 1000
      [] unit = Str("m") -> value.v * 60000
      [] unit = Str("h") -> value.v * 3600000
      [] OTHER -> value.v

\* C6: the timer _wait schedules lasts v for 'ms', v*1000 for 's', v*60000
\* for 'm', v*3600000 for 'h', and v for every other unit tag whatsoever.
C6_ScheduledDuration ==
    \A i \in 1..Len(waits) :
        /\ waits[i].timer.state # "none"
        /\ waits[i].timer.delay = Num(DurationOf(waits[i].value, waits[i].unit))

\* C7: the promise _wait returns is never rejected, whatever the value and
\* the unit tag; it is resolved once, with no payload, and not before its
\* timer has fired.
C7_NeverRejected ==
    \A i \in 1..Len(waits) :
        /\ waits[i].promise.state # "rejected"
        /\ waits[i].promise.state = "fulfilled" =>
             /\ waits[i].timer.state = "fired"
             /\ waits[i].promise.value = Undefined
             /\ waits[i].resolveCalls = 1

(***************************************************************************)
(* _FiletoJson                                                             *)
(***************************************************************************)
\* The host's files: the text of each path that exists.
FilePaths == {"missing.json", "object.json", "array.json", "number.json",
              "broken.json", "empty.json"}
FileExists(path) == path # "missing.json"
FileText(path) ==
    CASE path = "object.json" -> "{\"a\":1}"
      [] path = "array.json" -> "[1,2]"
      [] path = "number.json" -> "7"
      [] path = "broken.json" -> "{\"a\":"
      [] path = "empty.json" -> ""

Encodings == {Str("utf-8"), Str("latin1")}

\* fs.readFileSync(path, {encoding, flag}): the text, or the host's error
readFileSync(path, opts) ==
    IF opts.encoding \notin Encodings
    THEN Throw(Err("TypeError", "The argument 'encoding' is invalid"))
    ELSE IF ~FileExists(path)
    THEN Throw(Err("Error", "ENOENT: no such file or directory, open '"
                            \o path \o "'"))
    ELSE Return(Str(FileText(path)), <<>>)

\* JSON.parse(text) on the texts of the host's files
JSONParse(text) ==
    CASE text = "{\"a\":1}" -> Return(Obj("{a: 1}"), <<>>)
      [] text = "[1,2]" -> Return(Arr(<<Num(1), Num(2)>>), <<>>)
      [] text = "7" -> Return(Num(7), <<>>)
      [] OTHER -> Throw(Err("SyntaxError", "Unexpected end of JSON input"))

\* processFunction(parsedData): synchronous, failing, or asynchronous
Apply(processFunction, parsedData) ==
    LET name == processFunction.v[1]
    IN CASE name = "process" -> Return(Arr(<<Str("processed"), parsedData>>), <<>>)
         [] name = "processThrows" -> Throw(Err("Error", "process failed"))
         [] name = "processAsync" ->
              Return([t |-> "promise", v |-> parsedData], <<>>)

\* the outcome of a call, and the steps it performed, in order
FileOutcome(completion, steps) ==
    [kind |-> completion.kind, value |-> completion.value, steps |-> steps]

\* a variant that recovers from a parse failure instead of failing
_FiletoJson_recover(path, options, processFunction) ==
    LET data == readFileSync(path,
                    [encoding |-> IF Truthy(options.encoding) THEN options.encoding
                                  ELSE Str("utf-8"),
                     flag |-> IF Truthy(options.flag) THEN options.flag ELSE Str("")])
    IN IF data.kind = "throw" THEN FileOutcome(data, <<"readFileSync">>)
       ELSE LET parsed == JSONParse(data.value.v)
                parsedData == IF parsed.kind = "throw" THEN Null ELSE parsed.value
            IN IF Truthy(processFunction)
               THEN FileOutcome(Apply(processFunction, parsedData),
                                <<"readFileSync", "JSON.parse", "processFunction">>)
               ELSE FileOutcome(Return(parsedData, <<>>),
                                <<"readFileSync", "JSON.parse">>)

_FiletoJson(path, options, processFunction) ==
    LET data == readFileSync(path,
                    [encoding |-> IF Truthy(options.encoding) THEN options.encoding
                                  ELSE Str("utf-8"),
                     flag |-> IF Truthy(options.flag) THEN options.flag ELSE Str("")])
    IN IF data.kind = "throw" THEN FileOutcome(data, <<"readFileSync">>)
       ELSE LET parsedData == JSONParse(data.value.v)
            IN IF parsedData.kind = "throw"
               THEN FileOutcome(parsedData, <<"readFileSync", "JSON.parse">>)
               ELSE IF Truthy(processFunction)
               THEN FileOutcome(Apply(processFunction, parsedData.value),
                                <<"readFileSync", "JSON.parse", "processFunction">>)
               ELSE FileOutcome(Return(parsedData.value, <<>>),
                                <<"readFileSync", "JSON.parse">>)

\* The inputs of the model's _FiletoJson calls.
FileOptions == [encoding : Encodings \cup {Undefined, Str("bogus")},
                flag : {Undefined, Str("r")}]
ProcessFunctions == {Undefined, Fn("process", Undefined),
                     Fn("processThrows", Undefined), Fn("processAsync", Undefined)}

\* _FiletoJson is applied once to the arguments drawn initially
FileCall ==
    /\ ~fileCall.called
    /\ fileCall' = [called |-> TRUE, path |-> fileCall.path,
                    options |-> fileCall.options,
                    processFunction |-> fileCall.processFunction,
                    result |-> _FiletoJson(fileCall.path, fileCall.options,
                                           fileCall.processFunction)]
    /\ UNCHANGED <<caseCall, waits, shell, invocations, procs, libCall>>

InitFile ==
    /\ caseCall = NoCall
    /\ waits = <<>>
    /\ fileCall \in [called : {FALSE}, path : FilePaths, options : FileOptions,
                     processFunction : ProcessFunctions]
    /\ shell = [built |-> FALSE]
    /\ invocations = <<>>
    /\ procs = <<>>
    /\ libCall = NoCall

NextFile == FileCall

SpecFile == InitFile /\ [][NextFile]_vars

(***************************************************************************)
(* Properties of _FiletoJson.                                              *)
(***************************************************************************)
\* the host's read of the call's file, with the encoding the call asked for
ReadOf(call) ==
    readFileSync(call.path,
                 [encoding |-> IF call.options.encoding = Undefined
                               THEN Str("utf-8") ELSE call.options.encoding,
                  flag |-> call.options.flag])

IsPrefix(s, t) == Len(s) <= Len(t) /\ s = SubSeq(t, 1, Len(s))

\* C8: _FiletoJson reads, then parses, then runs processFunction; a read
\* error and a parse error each reach the caller unchanged, and then
\* processFunction is not invoked and nothing is returned.
C8_ReadParseProcessOrder ==
    fileCall.called =>
        LET read == ReadOf(fileCall)
            result == fileCall.result
        IN /\ IsPrefix(result.steps,
                       <<"readFileSync", "JSON.parse", "processFunction">>)
           /\ read.kind = "throw" =>
                /\ result.kind = "throw"
                /\ result.value = read.value
                /\ result.steps = <<"readFileSync">>
           /\ (read.kind = "return" /\ JSONParse(read.value.v).kind = "throw") =>
                /\ result.kind = "throw"
                /\ result.value = JSONParse(read.value.v).value
                /\ result.steps = <<"readFileSync", "JSON.parse">>

\* a call with a processFunction whose file was read and failed to parse
C8_Witness ==
    /\ fileCall.called
    /\ fileCall.processFunction # Undefined
    /\ fileCall.path = "broken.json"
    /\ fileCall.result.kind = "throw"
    /\ fileCall.result.value.v[1] = "SyntaxError"

(***************************************************************************)
(* _createShellCommands                                                    *)
(***************************************************************************)
\* exec(cmd, callback): the host launches a child process at once; `owner`
\* is the invocation whose callback the process will call on completion.
exec(running, cmd, owner) ==
    Append(running, [cmd |-> cmd, state |-> "running", err |-> Null,
                     stdout |-> Str(""), owner |-> owner])

\* commands.forEach(commandPair => { funcs[name] = function() {...} })
\* A commandPair {name: cmd} is the pair <<name, cmd>> of its first entry.
RECURSIVE forEachCommand(_, _)
forEachCommand(commands, funcs) ==
    IF commands = <<>> THEN funcs
    ELSE LET name == Head(commands)[1]
             cmd == Head(commands)[2]
         IN forEachCommand(Tail(commands),
                           Put(funcs, name, Fn("shellCommand", Str(cmd))))

RECURSIVE execEach(_, _)
execEach(commands, running) ==
    IF commands = <<>> THEN running
    ELSE execEach(Tail(commands), exec(running, Head(commands)[2], 0))

\* a variant that runs every command while the mapping is built
_createShellCommands_eager(commands) ==
    [funcs |-> forEachCommand(commands, EmptyObject),
     launched |-> execEach(commands, <<>>)]

\* the mapping returned, and the processes launched while building it
_createShellCommands(commands) ==
    [funcs |-> forEachCommand(commands, EmptyObject), launched |-> <<>>]

\* a variant of the callback that does not look at err
execCallback_ignoreErr(promise, err, stdout) ==
    [promise |-> Resolve(promise, stdout), settleCalls |-> 1]

\* (err, stdout, stderr) => { if (err) { reject(err); return; } resolve(stdout); }
execCallback(promise, err, stdout) ==
    IF Truthy(err) THEN [promise |-> Reject(promise, err), settleCalls |-> 1]
    ELSE [promise |-> Resolve(promise, stdout), settleCalls |-> 1]

CommandNames == {"pull", "status"}
CommandLines == {"git pull", "git status"}
CommandLists == UNION {[1..n -> CommandNames \X CommandLines] : n \in 0..MaxCommands}

\* a caller builds the mapping
CreateShellCommands(commands) ==
    /\ ~shell.built
    /\ LET made == _createShellCommands(commands)
       IN /\ shell' = [built |-> TRUE, funcs |-> made.funcs]
          /\ procs' = procs \o made.launched
    /\ UNCHANGED <<caseCall, waits, fileCall, invocations, libCall>>

\* a caller invokes funcs[name]()
ShellInvoke(name) ==
    /\ shell.built
    /\ name \in DOMAIN shell.funcs
    /\ Len(invocations) < MaxInvocations
    /\ LET cmd == Get(shell.funcs, name).v[2].v
       IN procs' = exec(procs, cmd, Len(invocations) + 1)
    /\ invocations' = Append(invocations,
                             [name |-> name, promise |-> PendingPromise,
                              pid |-> Len(procs) + 1, settleCalls |-> 0])
    /\ UNCHANGED <<caseCall, waits, fileCall, shell, libCall>>

\* the output and the error a process can end with
StdoutOf(p) == Str("output of process " \o NatToString(p))
ErrorOf(p) == Err("Error", "Command failed: process " \o NatToString(p))

\* a child process completes and the host calls its callback
ProcessExit(p, err, stdout) ==
    /\ procs[p].state = "running"
    /\ procs' = [procs EXCEPT ![p].state = "exited", ![p].err = err,
                              ![p].stdout = stdout]
    /\ LET i == procs[p].owner
       IN IF i \in 1..Len(invocations)
          THEN LET called == execCallback(invocations[i].promise, err, stdout)
               IN invocations' =
                    [invocations EXCEPT ![i].promise = called.promise,
                                        ![i].settleCalls = @ + called.settleCalls]
          ELSE UNCHANGED invocations
    /\ UNCHANGED <<caseCall, waits, fileCall, shell, libCall>>

NextShell ==
    \/ \E commands \in CommandLists : CreateShellCommands(commands)
    \/ \E name \in CommandNames : ShellInvoke(name)
    \/ \E p \in 1..Len(procs), failed \in BOOLEAN, silent \in BOOLEAN :
          ProcessExit(p, IF failed THEN ErrorOf(p) ELSE Null,
                      IF silent THEN Str("") ELSE StdoutOf(p))

SpecShell == Init /\ [][NextShell]_vars

(***************************************************************************)
(* Properties of _createShellCommands.                                     *)
(***************************************************************************)
\* the processes launched for invocation i
ProcessesOf(i) == {p \in 1..Len(procs) : procs[p].owner = i}

\* C9: each invocation of a callable launches exactly one child process,
\* running the command bound to its name, and its promise settles once:
\* fulfilled with the captured stdout when the process completes without
\* error, rejected with the error object when it completes with one.
C9_OneProcessOneSettlement ==
    \A i \in 1..Len(invocations) :
        LET inv == invocations[i]
        IN /\ ProcessesOf(i) = {inv.pid}
           /\ shell.funcs[inv.name] = Fn("shellCommand", Str(procs[inv.pid].cmd))
           /\ procs[inv.pid].state = "running" =>
                /\ inv.promise = PendingPromise
                /\ inv.settleCalls = 0
           /\ (procs[inv.pid].state = "exited" /\ procs[inv.pid].err = Null) =>
                /\ inv.promise = [state |-> "fulfilled",
                                  value |-> procs[inv.pid].stdout]
                /\ inv.settleCalls = 1
           /\ (procs[inv.pid].state = "exited" /\ procs[inv.pid].err # Null) =>
                /\ inv.promise = [state |-> "rejected",
                                  value |-> procs[inv.pid].err]
                /\ inv.settleCalls = 1

\* two invocations, one whose process failed and one whose process succeeded
C9_Witness ==
    \E i, j \in 1..Len(invocations) :
        /\ invocations[i].promise.state = "rejected"
        /\ invocations[j].promise.state = "fulfilled"
        /\ invocations[j].promise.value = StdoutOf(invocations[j].pid)

\* the invocations whose promise a step changes
Settled == {i \in 1..Len(invocations) : invocations'[i] # invocations[i]}
\* the processes that complete in a step
Exited == {p \in 1..Len(procs) : procs'[p].state # procs[p].state}

\* C10: building the mapping launches no process; afterwards as many
\* processes are launched as invocations are made, each at its invocation
\* whatever the others are doing, and a promise settles only when its own
\* process completes.
C10_IndependentProcesses ==
    /\ [](/\ Len(procs) = Len(invocations)
          /\ \A i \in 1..Len(invocations) :
                invocations[i].promise.state = "pending"
                => /\ invocations[i].pid \in 1..Len(procs)
                   /\ procs[invocations[i].pid].state = "running")
    /\ [][/\ ~shell.built => Len(procs') = Len(procs)
          /\ \A i \in Settled : Exited = {invocations[i].pid}]_vars

\* three invocations in flight at once, the same callable twice
C10_Witness ==
    /\ Len(invocations) = 3
    /\ \A i \in 1..3 : procs[invocations[i].pid].state = "running"
    /\ invocations[1].name = invocations[2].name
    /\ invocations[3].name # invocations[1].name

(***************************************************************************)
(* Mappings: plain objects with their own enumerable properties held as    *)
(* <<key, value>> entries in Object.keys order.                            *)
(***************************************************************************)
Mapping(entries) == [t |-> "mapping", v |-> entries]

\* Object.keys(obj)
ObjectKeys(obj) == [i \in 1..Len(obj.v) |-> obj.v[i][1]]

\* obj[key] for an own property of a mapping, undefined when there is none
GetOwn(obj, key) ==
    IF \E i \in 1..Len(obj.v) : obj.v[i][1] = key
    THEN obj.v[CHOOSE i \in 1..Len(obj.v) : obj.v[i][1] = key][2]
    ELSE Undefined

\* the sequences of at most n distinct elements of S
DistinctSeqs(S, n) ==
    {q \in UNION {[1..m -> S] : m \in 0..n} :
        \A i, j \in 1..Len(q) : i # j => q[i] # q[j]}

PropertyNames == {"a", "b", "c"}
KeyLists == DistinctSeqs(PropertyNames, MaxKeys)

\* the mappings with the given key lists and values
MappingsOver(keyLists, values) ==
    UNION {{Mapping([i \in 1..Len(keys) |-> <<keys[i], vals[i]>>]) :
                vals \in [1..Len(keys) -> values]} : keys \in keyLists}

(***************************************************************************)
(* _forEachInObject                                                        *)
(***************************************************************************)
\* a call of the callback with the arguments it received, in order
CallWith(f, args) == [callee |-> f, args |-> args]

\* Object.keys(obj).forEach((key) => { callback(obj[key], key); })
RECURSIVE forEachKey(_, _, _)
forEachKey(keys, obj, callback) ==
    IF keys = <<>> THEN <<>>
    ELSE <<CallWith(callback, <<GetOwn(obj, Head(keys)), Str(Head(keys))>>)>>
         \o forEachKey(Tail(keys), obj, callback)

\* a variant that hands the callback (key, value)
_forEachInObject_swapped(obj, callback) ==
    LET calls == forEachKey(ObjectKeys(obj), obj, callback)
    IN [kind |-> "return", value |-> Undefined,
        calls |-> [i \in 1..Len(calls) |->
                     CallWith(callback, <<calls[i].args[2], calls[i].args[1]>>)]]

\* the outcome, and the calls of the callback in the order they were made
_forEachInObject(obj, callback) ==
    [kind |-> "return", value |-> Undefined,
     calls |-> forEachKey(ObjectKeys(obj), obj, callback)]

\* The inputs of the model's _forEachInObject calls.
WalkedValues == {Num(1), Num(2), Undefined, Mapping(<<<<"c", Num(3)>>>>)}
WalkedMappings == MappingsOver(KeyLists, WalkedValues)

\* the helper named by libCall is applied once to the arguments drawn initially
ForEachInObjectCall ==
    /\ libCall.fn = "_forEachInObject"
    /\ ~libCall.called
    /\ libCall' = [libCall EXCEPT !.called = TRUE,
                     !.result = _forEachInObject(libCall.obj, libCall.callback)]
    /\ UNCHANGED <<caseCall, waits, fileCall, shell, invocations, procs>>

\* the state of the host components in a specification of a helper
HostIdle ==
    /\ caseCall = NoCall
    /\ waits = <<>>
    /\ fileCall = NoCall
    /\ shell = [built |-> FALSE]
    /\ invocations = <<>>
    /\ procs = <<>>

NotCalled == [kind |-> "none"]

InitForEach ==
    /\ HostIdle
    /\ libCall \in [fn : {"_forEachInObject"}, called : {FALSE},
                    obj : WalkedMappings, callback : {Fn("record", Undefined)},
                    result : {NotCalled}]

NextForEach == ForEachInObjectCall

SpecForEach == InitForEach /\ [][NextForEach]_vars

(***************************************************************************)
(* Properties of _forEachInObject.                                         *)
(***************************************************************************)
\* C11: _forEachInObject(m, cb) invokes cb exactly |keys(m)| times, once per
\* own top-level key, with (value, key) in that argument order, in the
\* mapping's key order, and never for a key of a nested mapping.
C11_OncePerKey ==
    (libCall.fn = "_forEachInObject" /\ libCall.called) =>
        LET entries == libCall.obj.v
            calls == libCall.result.calls
        IN /\ Len(calls) = Len(entries)
           /\ \A i \in 1..Len(calls) :
                /\ calls[i].callee = libCall.callback
                /\ calls[i].args = <<entries[i][2], Str(entries[i][1])>>

\* a walk over two keys, the second holding a nested mapping
C11_Witness ==
    /\ libCall.fn = "_forEachInObject"
    /\ libCall.called
    /\ Len(libCall.obj.v) = 2
    /\ libCall.obj.v[2][2].t = "mapping"
    /\ Len(libCall.result.calls) = 2

(***************************************************************************)
(* _removeDuplicates                                                       *)
(***************************************************************************)
\* self.indexOf(value): the zero-based position of the first element that
\* is strictly equal to value, or -1
indexOf(self, value) ==
    IF \E i \in 1..Len(self) : StrictEquals(self[i], value)
    THEN (CHOOSE i \in 1..Len(self) :
            /\ StrictEquals(self[i], value)
            /\ \A j \in 1..(i - 1) : ~StrictEquals(self[j], value)) - 1
    ELSE -1

\* except.includes(value)
includes(list, value) == \E i \in 1..Len(list) : SameValueZero(list[i], value)

\* the elements of self at the (one-based) positions in kept, from i on
RECURSIVE filterFrom(_, _, _)
filterFrom(self, i, kept) ==
    IF i > Len(self) THEN <<>>
    ELSE (IF i \in kept THEN <<self[i]>> ELSE <<>>) \o filterFrom(self, i + 1, kept)

\* array.filter((value, index, self) =>
\*     self.indexOf(value) === index || except.includes(value))
_removeDuplicates(array, except) ==
    LET kept == {i \in 1..Len(array) :
                    indexOf(array, array[i]) = i - 1 \/ includes(except, array[i])}
    IN filterFrom(array, 1, kept)

\* The inputs of the model's _removeDuplicates calls.
DedupValues == {Num(1), Num(2), Str("1"), NaN}
DedupArrays == UNION {[1..n -> DedupValues] : n \in 0..MaxLen}
ExceptLists == {<<>>} \cup {<<x>> : x \in DedupValues}

RemoveDuplicatesCall ==
    /\ libCall.fn = "_removeDuplicates"
    /\ ~libCall.called
    /\ libCall' = [libCall EXCEPT !.called = TRUE,
                     !.result = [kind |-> "return",
                                 value |-> _removeDuplicates(libCall.array,
                                                             libCall.except)]]
    /\ UNCHANGED <<caseCall, waits, fileCall, shell, invocations, procs>>

InitRemoveDuplicates ==
    /\ HostIdle
    /\ libCall \in [fn : {"_removeDuplicates"}, called : {FALSE},
                    array : DedupArrays, except : ExceptLists,
                    result : {NotCalled}]

NextRemoveDuplicates == RemoveDuplicatesCall

SpecRemoveDuplicates == InitRemoveDuplicates /\ [][NextRemoveDuplicates]_vars

(***************************************************************************)
(* Properties of _removeDuplicates.                                        *)
(***************************************************************************)
\* C12: _removeDuplicates returns, in the original order, the first
\* occurrence of every value not listed in except and every occurrence of
\* every value listed in except, values being the same iff strictly equal;
\* this for every element value an array can hold.
C12_FirstOccurrences ==
    (libCall.fn = "_removeDuplicates" /\ libCall.called) =>
        LET array == libCall.array
            listed(i) == \E k \in 1..Len(libCall.except) :
                            StrictEquals(libCall.except[k], array[i])
            first(i) == \A j \in 1..(i - 1) : ~StrictEquals(array[j], array[i])
        IN libCall.result.value =
             filterFrom(array, 1, {i \in 1..Len(array) : listed(i) \/ first(i)})

(***************************************************************************)
(* _ObjectToArray                                                          *)
(***************************************************************************)
\* typeof x
Typeof(x) ==
    CASE x.t \in {"mapping", "array", "null", "object", "error", "ref"} -> "object"
      [] x.t = "NaN" -> "number"
      [] OTHER -> x.t

\* Array.isArray(x)
IsArray(x) == x.t = "array"

\* the first of a sequence of completions that threw, if one did
FirstThrow(completions) ==
    completions[CHOOSE i \in 1..Len(completions) :
                    /\ completions[i].kind = "throw"
                    /\ \A j \in 1..(i - 1) : completions[j].kind # "throw"]

\* const transform = (item) => { ... }; Object.entries(null) throws
RECURSIVE transform(_)
transform(item) ==
    IF IsArray(item) THEN Return(item, <<>>)
    ELSE IF Typeof(item) = "object"
    THEN IF item.t = "null"
         THEN Throw(Err("TypeError", "Cannot convert undefined or null to object"))
         ELSE LET vals == [i \in 1..Len(item.v) |-> transform(item.v[i][2])]
              IN IF \E i \in 1..Len(vals) : vals[i].kind = "throw"
                 THEN FirstThrow(vals)
                 ELSE Return(Arr([i \in 1..Len(item.v) |->
                                    Arr(<<Str(item.v[i][1]), vals[i].value>>)]),
                             <<>>)
    ELSE Return(item, <<>>)

\* a variant that tests typeof only
_ObjectToArray_typeofOnly(obj) ==
    IF Typeof(obj) # "object"
    THEN Throw(Err("Error", "Input is not an object"))
    ELSE transform(obj)

_ObjectToArray(obj) ==
    IF Typeof(obj) # "object" \/ obj.t = "null"
    THEN Throw(Err("Error", "Input is not an object"))
    ELSE transform(obj)

\* The inputs of the model's _ObjectToArray calls.
LeafValues == {Num(1), Str("x"), Bool(TRUE), Undefined, Null}
ArrayValues == {Arr(<<>>), Arr(<<Num(1), Mapping(<<<<"c", Num(2)>>>>)>>)}
InnerMappings ==
    MappingsOver({<<>>, <<"c">>}, LeafValues \cup ArrayValues)
    \cup {Mapping(<<<<"c", Mapping(<<<<"c", x>>>>)>>>>) : x \in {Num(1), Null}}
NestedValues == LeafValues \cup ArrayValues \cup InnerMappings
NestedMappings == MappingsOver(KeyLists, NestedValues)
NonObjects == {Null, Undefined, Num(123), Str("string"), Bool(TRUE)}
ObjectToArrayInputs == NestedMappings \cup ArrayValues \cup NonObjects

ObjectToArrayCall ==
    /\ libCall.fn = "_ObjectToArray"
    /\ ~libCall.called
    /\ libCall' = [libCall EXCEPT !.called = TRUE,
                                  !.result = _ObjectToArray(libCall.obj)]
    /\ UNCHANGED <<caseCall, waits, fileCall, shell, invocations, procs>>

InitObjectToArray ==
    /\ HostIdle
    /\ libCall \in [fn : {"_ObjectToArray"}, called : {FALSE},
                    obj : ObjectToArrayInputs, result : {NotCalled}]

NextObjectToArray == ObjectToArrayCall

SpecObjectToArray == InitObjectToArray /\ [][NextObjectToArray]_vars

(***************************************************************************)
(* Properties of _ObjectToArray.                                           *)
(***************************************************************************)
InvalidInput == Throw(Err("Error", "Input is not an object"))

\* C13: _ObjectToArray fails with 'Input is not an object' for a top-level
\* null, undefined, number, string or boolean, and for no non-null object
\* or array.
C13_InvalidInput ==
    (libCall.fn = "_ObjectToArray" /\ libCall.called) =>
        (libCall.result = InvalidInput
         <=> libCall.obj.t \in {"null", "undefined", "number", "string", "boolean"})

\* null was rejected as input
C13_Witness ==
    /\ libCall.fn = "_ObjectToArray"
    /\ libCall.called
    /\ libCall.obj = Null
    /\ libCall.result = InvalidInput

\* the pairs the contract gives for a mapping: nested mappings transformed,
\* arrays and scalars as they are
RECURSIVE PairsFor(_)
PairsFor(m) ==
    Arr([i \in 1..Len(m.v) |->
            Arr(<<Str(m.v[i][1]),
                  IF m.v[i][2].t = "mapping" THEN PairsFor(m.v[i][2])
                  ELSE m.v[i][2]>>)])

\* C14: for every acyclic mapping _ObjectToArray returns one
\* [key, transformed value] pair per own key, in key order, nested mappings
\* transformed recursively and arrays kept as they are.
C14_PairsPerKey ==
    (libCall.fn = "_ObjectToArray" /\ libCall.called /\ libCall.obj.t = "mapping")
    => /\ libCall.result.kind = "return"
       /\ libCall.result.value = PairsFor(libCall.obj)

IsLeaf(x) == x.t \in {"number", "string", "boolean", "undefined", "null"}

\* every leaf of mapping m stands as it is in its pair of the output
RECURSIVE LeavesAsIs(_, _)
LeavesAsIs(m, out) ==
    /\ out.t = "array"
    /\ Len(out.v) = Len(m.v)
    /\ \A i \in 1..Len(m.v) :
        /\ IsLeaf(m.v[i][2]) =>
             out.v[i] = Arr(<<Str(m.v[i][1]), m.v[i][2]>>)
        /\ m.v[i][2].t = "mapping" =>
             /\ out.v[i].t = "array"
             /\ Len(out.v[i].v) = 2
             /\ LeavesAsIs(m.v[i][2], out.v[i].v[2])

\* C15: for every mapping input the call completes without error and every
\* leaf (number, string, boolean, undefined, null) is returned as it is in
\* its [key, value] pair, at any nesting depth.
C15_LeavesAsIs ==
    (libCall.fn = "_ObjectToArray" /\ libCall.called /\ libCall.obj.t = "mapping")
    => /\ libCall.result.kind = "return"
       /\ LeavesAsIs(libCall.obj, libCall.result.value)

(***************************************************************************)
(* _ArrayToObject                                                          *)
(***************************************************************************)
\* list.slice(from, to), zero-based and half-open
slice(list, from, to) == SubSeq(list, from + 1, to)

OutOfBounds == Throw(Err("Error", "Key index is out of bounds"))

\* a reducer that passes over an entry without the key position
assignEntry_skip(acc, item, keyIndex) ==
    IF keyIndex < 0 \/ keyIndex >= Len(item.v)
    THEN Return(acc, <<>>)
    ELSE LET key == item.v[keyIndex + 1]
             values == slice(item.v, 0, keyIndex)
                       \o slice(item.v, keyIndex + 1, Len(item.v))
         IN Return(Put(acc, ToPropertyKey(key),
                       IF Len(values) > 1 THEN Arr(values)
                       ELSE IF Len(values) = 1 /\ Truthy(values[1])
                            THEN values[1]
                            ELSE Null),
                   <<>>)

\* the reducer (acc, item) => { ... } of _ArrayToObject
assignEntry(acc, item, keyIndex) ==
    IF keyIndex < 0 \/ keyIndex >= Len(item.v)
    THEN OutOfBounds
    ELSE LET key == item.v[keyIndex + 1]
             values == slice(item.v, 0, keyIndex)
                       \o slice(item.v, keyIndex + 1, Len(item.v))
         IN \* acc[key] = values.length > 1 ? values : values[0] || null
            Return(Put(acc, ToPropertyKey(key),
                       IF Len(values) > 1 THEN Arr(values)
                       ELSE IF Len(values) = 1 /\ Truthy(values[1])
                            THEN values[1]
                            ELSE Null),
                   <<>>)

\* array.reduce(reducer, acc): a throw of the reducer ends the reduction
RECURSIVE reduceEntries(_, _, _)
reduceEntries(items, acc, keyIndex) ==
    IF items = <<>> THEN Return(acc, <<>>)
    ELSE LET step == assignEntry(acc, Head(items), keyIndex)
         IN IF step.kind = "throw" THEN step
            ELSE reduceEntries(Tail(items), step.value, keyIndex)

\* keyIndex = 0 is the default of an absent argument
_ArrayToObject(array, keyIndexArg) ==
    LET keyIndex == IF keyIndexArg.t = "undefined" THEN 0 ELSE keyIndexArg.v
    IN reduceEntries(array.v, EmptyObject, keyIndex)

\* The inputs of the model's _ArrayToObject calls.
EntryValues == {Str("a"), Str("b"), Num(0)}
Entries == {Arr(items) : items \in UNION {[1..n -> EntryValues] : n \in 0..MaxLen}}
EntryArrays ==
    {Arr(<<>>)} \cup {Arr(<<e>>) : e \in Entries}
    \cup {Arr(<<e, f>>) : e \in Entries, f \in Entries}
KeyIndexes == {Undefined} \cup {Num(k) : k \in -1..MaxLen}

ArrayToObjectCall ==
    /\ libCall.fn = "_ArrayToObject"
    /\ ~libCall.called
    /\ libCall' = [libCall EXCEPT
                     !.called = TRUE,
                     !.result = _ArrayToObject(libCall.array, libCall.keyIndex)]
    /\ UNCHANGED <<caseCall, waits, fileCall, shell, invocations, procs>>

InitArrayToObject ==
    /\ HostIdle
    /\ libCall \in [fn : {"_ArrayToObject"}, called : {FALSE},
                    array : EntryArrays, keyIndex : KeyIndexes,
                    result : {NotCalled}]

NextArrayToObject == ArrayToObjectCall

SpecArrayToObject == InitArrayToObject /\ [][NextArrayToObject]_vars

(***************************************************************************)
(* Properties of _ArrayToObject.                                           *)
(***************************************************************************)
\* the key index the call works with
KeyIndexOf(call) == IF call.keyIndex.t = "undefined" THEN 0 ELSE call.keyIndex.v

\* C16: _ArrayToObject fails with 'Key index is out of bounds', returning
\* no mapping, whenever for some entry of the array keyIndex is negative or
\* greater than or equal to the entry's length, and never fails with it when
\* 0 <= keyIndex < length holds for every entry.
C16_KeyIndexBounds ==
    (libCall.fn = "_ArrayToObject" /\ libCall.called) =>
        LET k == KeyIndexOf(libCall)
            entries == libCall.array.v
        IN (libCall.result = OutOfBounds)
           <=> \E i \in 1..Len(entries) : k < 0 \/ k >= Len(entries[i].v)

\* a second entry without the key position, after a first one with it
C16_Witness ==
    /\ libCall.fn = "_ArrayToObject"
    /\ libCall.called
    /\ Len(libCall.array.v) = 2
    /\ KeyIndexOf(libCall) = 1
    /\ Len(libCall.array.v[1].v) = 2
    /\ Len(libCall.array.v[2].v) = 1
    /\ libCall.result = OutOfBounds

\* the elements of an entry other than the one at position k (zero-based)
Remaining(entry, k) == slice(entry.v, 0, k) \o slice(entry.v, k + 1, Len(entry.v))

\* C17: for every entry and valid keyIndex the element at keyIndex is mapped
\* to the entry's remaining elements in order: that one element whatever its
\* value when one remains, null when none remains, their sequence when two
\* or more remain (of entries with the same key the last one counts).
C17_RemainingElements ==
    (libCall.fn = "_ArrayToObject" /\ libCall.called) =>
        LET k == KeyIndexOf(libCall)
            entries == libCall.array.v
            keyOf(i) == ToPropertyKey(entries[i].v[k + 1])
        IN (\A i \in 1..Len(entries) : 0 <= k /\ k < Len(entries[i].v))
           => /\ libCall.result.kind = "return"
              /\ \A i \in 1..Len(entries) :
                   (\A j \in (i + 1)..Len(entries) : keyOf(j) # keyOf(i))
                   => LET rest == Remaining(entries[i], k)
                      IN /\ keyOf(i) \in DOMAIN libCall.result.value
                         /\ libCall.result.value[keyOf(i)] =
                              IF Len(rest) = 1 THEN rest[1]
                              ELSE IF Len(rest) = 0 THEN Null
                              ELSE Arr(rest)

(***************************************************************************)
(* _ArrayToObject(_ObjectToArray(m), 0)                                    *)
(***************************************************************************)
\* the composition: a throw of the inner call ends the expression
RoundTrip(m) ==
    LET pairs == _ObjectToArray(m)
    IN IF pairs.kind = "throw" THEN pairs
       ELSE _ArrayToObject(pairs.value, Num(0))

\* flat mappings of scalars
ScalarValues == {Num(0), Num(10), Str(""), Str("x"), Bool(TRUE), Bool(FALSE)}
FlatMappings == MappingsOver(KeyLists, ScalarValues)

RoundTripCall ==
    /\ libCall.fn = "roundTrip"
    /\ ~libCall.called
    /\ libCall' = [libCall EXCEPT !.called = TRUE,
                                  !.result = RoundTrip(libCall.obj)]
    /\ UNCHANGED <<caseCall, waits, fileCall, shell, invocations, procs>>

InitRoundTrip ==
    /\ HostIdle
    /\ libCall \in [fn : {"roundTrip"}, called : {FALSE},
                    obj : FlatMappings, result : {NotCalled}]

NextRoundTrip == RoundTripCall

SpecRoundTrip == InitRoundTrip /\ [][NextRoundTrip]_vars

\* C18: for every flat mapping m of numbers, strings and booleans,
\* _ArrayToObject(_ObjectToArray(m), 0) is a mapping with the keys of m and
\* the value of m for each key.
C18_RoundTrip ==
    (libCall.fn = "roundTrip" /\ libCall.called) =>
        /\ libCall.result.kind = "return"
        /\ DOMAIN libCall.result.value
             = {ObjectKeys(libCall.obj)[i] : i \in 1..Len(libCall.obj.v)}
        /\ \A key \in DOMAIN libCall.result.value :
             libCall.result.value[key] = GetOwn(libCall.obj, key)

(***************************************************************************)
(* _insertAt.  An index is a number counted in hundredths, so that 314     *)
(* stands for 3.14 and 200 for 2.                                          *)
(***************************************************************************)
Whole(n) == n * 100

\* Math.floor of a number in hundredths
MathFloor(x) == x \div 100

\* a copy of list with items put in before position start (zero-based)
splice(list, start, items) ==
    slice(list, 0, start) \o items \o slice(list, start, Len(list))

\* an insertion that moves an index out of range to the nearest end
_insertAt_clamped(array, index, items) ==
    Return(Arr(splice(array.v,
                      IF index < 0 THEN 0
                      ELSE IF index > Whole(Len(array.v)) THEN Len(array.v)
                      ELSE MathFloor(index),
                      items)),
           <<>>)

_insertAt(array, index, items) ==
    IF index < 0 \/ index > Whole(Len(array.v))
    THEN Return(array, <<>>)
    ELSE Return(Arr(splice(array.v, MathFloor(index), items)), <<>>)

\* The inputs of the model's _insertAt calls.
InsertArrays ==
    {Arr(a) : a \in UNION {[1..n -> {Num(1), Num(2)}] : n \in 0..MaxLen}}
    \cup {Arr(<<Num(1), Num(2), Num(3), Num(4)>>)}
InsertItems == {<<>>, <<Str("a")>>, <<Str("a"), Str("b")>>, <<Str("b"), Str("a")>>}
InsertIndexes ==
    UNION {{Whole(k), Whole(k) + 14, Whole(k) + 50} : k \in -1..(MaxLen + 2)}

InsertAtCall ==
    /\ libCall.fn = "_insertAt"
    /\ ~libCall.called
    /\ libCall' = [libCall EXCEPT
                     !.called = TRUE,
                     !.result = _insertAt(libCall.array, libCall.index,
                                          libCall.items)]
    /\ UNCHANGED <<caseCall, waits, fileCall, shell, invocations, procs>>

InitInsertAt ==
    /\ HostIdle
    /\ libCall \in [fn : {"_insertAt"}, called : {FALSE},
                    array : InsertArrays, index : InsertIndexes,
                    items : InsertItems, result : {NotCalled}]

NextInsertAt == InsertAtCall

SpecInsertAt == InitInsertAt /\ [][NextInsertAt]_vars

\* C19: _insertAt(a, i, ...xs) returns a unchanged, without error, when
\* i < 0 or i > length(a); otherwise it returns a with xs inserted in order
\* at position floor(i): the elements before floor(i), then xs, then the
\* rest, which is the result of the integer index floor(i), and for
\* i = length(a) the items stand at the end.
C19_InsertAtFloor ==
    (libCall.fn = "_insertAt" /\ libCall.called) =>
        LET a == libCall.array.v
            xs == libCall.items
            i == libCall.index
            r == libCall.result.value.v
            \* the largest whole number not above i
            fl == CHOOSE n \in -2..(Len(a) + 3) : Whole(n) <= i /\ i < Whole(n + 1)
        IN /\ libCall.result.kind = "return"
           /\ libCall.result.value.t = "array"
           /\ (i < 0 \/ i > Whole(Len(a))) => r = a
           /\ (0 <= i /\ i <= Whole(Len(a))) =>
                /\ Len(r) = Len(a) + Len(xs)
                /\ \A j \in 1..fl : r[j] = a[j]
                /\ \A j \in 1..Len(xs) : r[fl + j] = xs[j]
                /\ \A j \in (fl + 1)..Len(a) : r[Len(xs) + j] = a[j]
                /\ libCall.result = _insertAt(libCall.array, Whole(fl), xs)
                /\ i = Whole(Len(a)) => r = a \o xs

\* the insertion at 3.14 into [1, 2, 3, 4]
C19_Witness ==
    /\ libCall.fn = "_insertAt"
    /\ libCall.called
    /\ libCall.array = Arr(<<Num(1), Num(2), Num(3), Num(4)>>)
    /\ libCall.index = 314
    /\ libCall.items = <<Str("a"), Str("b")>>
    /\ libCall.result.value
         = Arr(<<Num(1), Num(2), Num(3), Str("a"), Str("b"), Num(4)>>)

(***************************************************************************)
(* _filterArray                                                            *)
(***************************************************************************)
\* a filter that leaves out a nested array in which nothing is kept
RECURSIVE filterItems_dropEmpty(_, _)
filterItems_dropEmpty(items, types) ==
    IF items = <<>> THEN <<>>
    ELSE LET x == Head(items)
             inner == IF IsArray(x) THEN filterItems_dropEmpty(x.v, types) ELSE <<>>
         IN (IF IsArray(x)
             THEN IF inner = <<>> THEN <<>> ELSE <<Arr(inner)>>
             ELSE IF Typeof(x) \in types THEN <<x>> ELSE <<>>)
            \o filterItems_dropEmpty(Tail(items), types)

\* element by element: a nested array is filtered in its place, another
\* element is kept when its type is one of the tags
RECURSIVE filterItems(_, _)
filterItems(items, types) ==
    IF items = <<>> THEN <<>>
    ELSE LET x == Head(items)
         IN (IF IsArray(x) THEN <<Arr(filterItems(x.v, types))>>
             ELSE IF Typeof(x) \in types THEN <<x>> ELSE <<>>)
            \o filterItems(Tail(items), types)

_filterArray(array, types) == Return(Arr(filterItems(array.v, types)), <<>>)

\* The inputs of the model's _filterArray calls.
FilterScalars == {Num(1), Str("hello"), Bool(TRUE), Mapping(<<>>)}
FilterInner ==
    {Arr(<<>>), Arr(<<Str("hello"), Arr(<<Num(2), Str("world")>>)>>)}
    \cup {Arr(<<x>>) : x \in FilterScalars}
FilterElements == FilterScalars \cup FilterInner
FilterArrays == {Arr(a) : a \in UNION {[1..n -> FilterElements] : n \in 0..MaxLen}}
TypeTags == {{"number"}, {"string"}, {"number", "string"}, {"object"}}

FilterArrayCall ==
    /\ libCall.fn = "_filterArray"
    /\ ~libCall.called
    /\ libCall' = [libCall EXCEPT
                     !.called = TRUE,
                     !.result = _filterArray(libCall.array, libCall.types)]
    /\ UNCHANGED <<caseCall, waits, fileCall, shell, invocations, procs>>

InitFilterArray ==
    /\ HostIdle
    /\ libCall \in [fn : {"_filterArray"}, called : {FALSE},
                    array : FilterArrays, types : TypeTags,
                    result : {NotCalled}]

NextFilterArray == FilterArrayCall

SpecFilterArray == InitFilterArray /\ [][NextFilterArray]_vars

\* out is what the contract leaves of items: the positions holding a nested
\* array or an element of a listed type, in order, each nested array
\* standing for what the contract leaves of it
RECURSIVE Retains(_, _, _)
Retains(items, out, types) ==
    LET kept == {i \in 1..Len(items) :
                    IsArray(items[i]) \/ Typeof(items[i]) \in types}
        sel == filterFrom(items, 1, kept)
    IN /\ Len(out) = Len(sel)
       /\ \A j \in 1..Len(sel) :
            IF IsArray(sel[j])
            THEN IsArray(out[j]) /\ Retains(sel[j].v, out[j].v, types)
            ELSE out[j] = sel[j]

\* C20: _filterArray returns a new array that keeps, in the original
\* relative order and at the same nesting position, exactly the non-array
\* elements whose type is one of the tags, nested arrays filtered
\* recursively; a nested array that retains nothing is kept as an empty
\* array.
C20_FilterByType ==
    (libCall.fn = "_filterArray" /\ libCall.called) =>
        /\ libCall.result.kind = "return"
        /\ IsArray(libCall.result.value)
        /\ Retains(libCall.array.v, libCall.result.value.v, libCall.types)

\* a nested array that retained nothing stands empty beside a kept element
C20_Witness ==
    /\ libCall.fn = "_filterArray"
    /\ libCall.called
    /\ libCall.array = Arr(<<Num(1), Arr(<<Str("hello")>>)>>)
    /\ libCall.types = {"number"}
    /\ libCall.result.value = Arr(<<Num(1), Arr(<<>>)>>)

(***************************************************************************)
(* _forEachInObject, callback by callback, with a callback that may add,   *)
(* change and delete properties of the mapping it walks.                   *)
(***************************************************************************)
\* obj[key] = val: a new key goes behind the others
SetOwn(obj, key, val) ==
    IF \E i \in 1..Len(obj.v) : obj.v[i][1] = key
    THEN Mapping([i \in 1..Len(obj.v) |->
                    IF obj.v[i][1] = key THEN <<key, val>> ELSE obj.v[i]])
    ELSE Mapping(Append(obj.v, <<key, val>>))

\* delete obj[key]
DeleteOwn(obj, key) ==
    Mapping(SelectSeq(obj.v, LAMBDA entry : entry[1] # key))

\* what a callback may do to the mapping
Effects ==
    {[op |-> "none"]}
    \cup {[op |-> "delete", key |-> k] : k \in PropertyNames}
    \cup {[op |-> "set", key |-> k, value |-> Num(9)] : k \in PropertyNames}

ApplyEffect(obj, effect) ==
    CASE effect.op = "delete" -> DeleteOwn(obj, effect.key)
      [] effect.op = "set" -> SetOwn(obj, effect.key, effect.value)
      [] OTHER -> obj

\* keys that follow the mapping as it changes
keysToVisit_live(call) == ObjectKeys(call.obj)

\* the array Object.keys(obj) returned, which forEach walks
keysToVisit(call) == call.keys

\* Object.keys(obj)
WalkKeys ==
    /\ libCall.fn = "forEach"
    /\ libCall.pc = "call"
    /\ libCall' = [libCall EXCEPT !.pc = "forEach",
                                  !.keys = ObjectKeys(libCall.obj)]
    /\ UNCHANGED <<caseCall, waits, fileCall, shell, invocations, procs>>

\* callback(obj[key], key) for the next key, and what the callback does
WalkCallback(effect) ==
    /\ libCall.fn = "forEach"
    /\ libCall.pc = "forEach"
    /\ libCall.next <= Len(keysToVisit(libCall))
    /\ LET key == keysToVisit(libCall)[libCall.next]
       IN libCall' = [libCall EXCEPT
                        !.next = @ + 1,
                        !.calls = Append(@, CallWith(libCall.callback,
                                    <<GetOwn(libCall.obj, key), Str(key)>>)),
                        !.seen = Append(@, libCall.obj),
                        !.obj = ApplyEffect(@, effect)]
    /\ UNCHANGED <<caseCall, waits, fileCall, shell, invocations, procs>>

\* forEach has passed the last key
WalkReturn ==
    /\ libCall.fn = "forEach"
    /\ libCall.pc = "forEach"
    /\ libCall.next > Len(keysToVisit(libCall))
    /\ libCall' = [libCall EXCEPT !.pc = "done"]
    /\ UNCHANGED <<caseCall, waits, fileCall, shell, invocations, procs>>

InitForEachWalk ==
    /\ HostIdle
    /\ libCall \in [fn : {"forEach"}, pc : {"call"},
                    start : MappingsOver(KeyLists, {Num(1), Num(2)}),
                    obj : MappingsOver(KeyLists, {Num(1), Num(2)}),
                    callback : {Fn("mutates", Undefined)},
                    keys : {<<>>}, next : {1}, calls : {<<>>}, seen : {<<>>}]
    /\ libCall.obj = libCall.start

NextForEachWalk ==
    \/ WalkKeys
    \/ \E effect \in Effects : WalkCallback(effect)
    \/ WalkReturn

\* the walk is one synchronous call: it goes on until it returns
SpecForEachWalk ==
    InitForEachWalk /\ [][NextForEachWalk]_vars /\ WF_vars(NextForEachWalk)

\* the callbacks made so far are those of the first keys present at the
\* start, each with the value of its key at the time of the call
WalkedFromStart ==
    (libCall.fn = "forEach" /\ libCall.pc # "call") =>
        LET startKeys == ObjectKeys(libCall.start)
        IN /\ Len(libCall.calls) <= Len(startKeys)
           /\ \A i \in 1..Len(libCall.calls) :
                libCall.calls[i].args =
                    <<GetOwn(libCall.seen[i], startKeys[i]), Str(startKeys[i])>>
           /\ libCall.pc = "done" => Len(libCall.calls) = Len(startKeys)

Ref(a) == [t |-> "ref", v |-> a]
IsRef(x) == x.t = "ref"
ArrayCell(items) == [k |-> "array", items |-> items]
ObjectCell(props) == [k |-> "object", props |-> props]

\* a new cell behind the others; NewRef is the reference to it
Alloc(heap, cell) == Append(heap, cell)
NewRef(heap) == Ref(Len(heap) + 1)

\* the heap a call leaves, and its completion
Eval(heap, completion) == [heap |-> heap, result |-> completion]

\* Array.isArray(x)
IsArrayRef(heap, x) == IsRef(x) /\ heap[x.v].k = "array"

\* obj[key] = val on the object cell at addr
WriteProp(heap, addr, key, val) ==
    [heap EXCEPT ![addr] = ObjectCell(SetOwn(Mapping(@.props), key, val).v)]

\* _removeDuplicates: filter makes the array it returns
_removeDuplicates_refs(heap, array, except) ==
    LET heap1 == IF except.t = "undefined" THEN Alloc(heap, ArrayCell(<<>>))
                 ELSE heap
        exceptList == IF except.t = "undefined" THEN <<>> ELSE heap[except.v].items
        self == heap[array.v].items
        kept == {i \in 1..Len(self) :
                    indexOf(self, self[i]) = i - 1 \/ includes(exceptList, self[i])}
    IN Eval(Alloc(heap1, ArrayCell(filterFrom(self, 1, kept))),
            Return(NewRef(heap1), <<>>))

\* transform of _ObjectToArray: an array is returned as the reference it
\* is; Object.entries and map make the arrays of an object
RECURSIVE transform_refs(_, _)
RECURSIVE mapEntries_refs(_, _, _)
transform_refs(heap, item) ==
    IF IsArrayRef(heap, item) THEN Eval(heap, Return(item, <<>>))
    ELSE IF Typeof(item) = "object"
    THEN IF item.t = "null"
         THEN Eval(heap, Throw(Err("TypeError",
                                   "Cannot convert undefined or null to object")))
         ELSE mapEntries_refs(heap, heap[item.v].props, <<>>)
    ELSE Eval(heap, Return(item, <<>>))

mapEntries_refs(heap, props, pairs) ==
    IF props = <<>>
    THEN Eval(Alloc(heap, ArrayCell(pairs)), Return(NewRef(heap), <<>>))
    ELSE LET val == transform_refs(heap, Head(props)[2])
         IN IF val.result.kind = "throw" THEN val
            ELSE mapEntries_refs(
                    Alloc(val.heap, ArrayCell(<<Str(Head(props)[1]), val.result.value>>)),
                    Tail(props),
                    Append(pairs, NewRef(val.heap)))

_ObjectToArray_refs(heap, obj) ==
    IF Typeof(obj) # "object" \/ obj.t = "null"
    THEN Eval(heap, InvalidInput)
    ELSE transform_refs(heap, obj)

\* a reducer that takes the key out of the entry itself: item.splice(keyIndex, 1)
assignEntry_splice(heap, acc, item, keyIndex) ==
    LET elems == heap[item.v].items
    IN IF keyIndex < 0 \/ keyIndex >= Len(elems)
       THEN Eval(heap, OutOfBounds)
       ELSE LET key == elems[keyIndex + 1]
                values == slice(elems, 0, keyIndex)
                          \o slice(elems, keyIndex + 1, Len(elems))
                heap1 == [heap EXCEPT ![item.v] = ArrayCell(values)]
            IN Eval(WriteProp(heap1, acc.v, ToPropertyKey(key),
                              IF Len(values) > 1 THEN item
                              ELSE IF Len(values) = 1 /\ Truthy(values[1])
                                   THEN values[1]
                                   ELSE Null),
                    Return(acc, <<>>))

\* the reducer of _ArrayToObject: the two slices and the array literal are
\* new arrays, the assignment changes acc
assignEntry_refs(heap, acc, item, keyIndex) ==
    LET elems == heap[item.v].items
    IN IF keyIndex < 0 \/ keyIndex >= Len(elems)
       THEN Eval(heap, OutOfBounds)
       ELSE LET key == elems[keyIndex + 1]
                before == slice(elems, 0, keyIndex)
                after == slice(elems, keyIndex + 1, Len(elems))
                heap1 == Alloc(Alloc(heap, ArrayCell(before)), ArrayCell(after))
                values == NewRef(heap1)
                heap2 == Alloc(heap1, ArrayCell(before \o after))
            IN Eval(WriteProp(heap2, acc.v, ToPropertyKey(key),
                              IF Len(before \o after) > 1 THEN values
                              ELSE IF Len(before \o after) = 1
                                      /\ Truthy((before \o after)[1])
                                   THEN (before \o after)[1]
                                   ELSE Null),
                    Return(acc, <<>>))

RECURSIVE reduceEntries_refs(_, _, _, _)
reduceEntries_refs(heap, items, acc, keyIndex) ==
    IF items = <<>> THEN Eval(heap, Return(acc, <<>>))
    ELSE LET step == assignEntry_refs(heap, acc, Head(items), keyIndex)
         IN IF step.result.kind = "throw" THEN step
            ELSE reduceEntries_refs(step.heap, Tail(items), acc, keyIndex)

\* the accumulator {} is a new object
_ArrayToObject_refs(heap, array, keyIndexArg) ==
    LET keyIndex == IF keyIndexArg.t = "undefined" THEN 0 ELSE keyIndexArg.v
    IN reduceEntries_refs(Alloc(heap, ObjectCell(<<>>)), heap[array.v].items,
                          NewRef(heap), keyIndex)

\* _forEachInObject: Object.keys makes the array of keys
_forEachInObject_refs(heap, obj, callback) ==
    LET keys == [i \in 1..Len(heap[obj.v].props) |-> heap[obj.v].props[i][1]]
    IN Eval(Alloc(heap, ArrayCell([i \in 1..Len(keys) |-> Str(keys[i])])),
            [kind |-> "return", value |-> Undefined,
             calls |-> forEachKey(keys, Mapping(heap[obj.v].props), callback)])

\* the value a reference to an array stands for, one level deep
Deref(heap, x) == IF IsArrayRef(heap, x) THEN Arr(heap[x.v].items) ELSE x

\* couples.reduce((acc, [caseKey, caseFunc]) => { acc[caseKey] = caseFunc }, {}):
\* the heap after the assignments made until a couple cannot be destructured
RECURSIVE reduce_refs(_, _, _)
reduce_refs(heap, couples, acc) ==
    IF couples = <<>> \/ ~IsArrayRef(heap, Head(couples)) THEN heap
    ELSE LET pair == heap[Head(couples).v].items
             caseKey == IF Len(pair) >= 1 THEN pair[1] ELSE Undefined
             caseFunc == IF Len(pair) >= 2 THEN pair[2] ELSE Undefined
         IN reduce_refs(WriteProp(heap, acc.v, ToPropertyKey(caseKey), caseFunc),
                        Tail(couples), acc)

\* _case: the rest parameter couples is a new array holding the arguments;
\* pop and push change it, the accumulator {} is a new object
_case_refs(heap, variable, args) ==
    LET n == Len(args)
        couples == NewRef(heap)
        heap1 == Alloc(heap, ArrayCell(args))
        popped == IF n = 0 THEN Undefined ELSE args[n]
        \* couples.pop()
        heap2 == [heap1 EXCEPT ![couples.v] =
                     ArrayCell(IF n = 0 THEN <<>> ELSE SubSeq(args, 1, n - 1))]
        \* couples.push(defaultFunc)
        heap3 == IF IsFunction(popped) THEN heap2
                 ELSE [heap2 EXCEPT ![couples.v] = ArrayCell(Append(@.items, popped))]
        switchLike == NewRef(heap3)
        heap4 == Alloc(heap3, ObjectCell(<<>>))
    IN Eval(reduce_refs(heap4, heap3[couples.v].items, switchLike),
            _case(variable, [i \in 1..n |-> Deref(heap, args[i])]))

\* commands.forEach(commandPair => { ... funcs[name] = function() {...} }):
\* Object.entries makes an array of new pairs; a commandPair without
\* entries cannot be destructured
RECURSIVE forEachCommand_refs(_, _, _)
forEachCommand_refs(heap, commands, funcs) ==
    IF commands = <<>> THEN Eval(heap, Return(funcs, <<>>))
    ELSE LET props == heap[Head(commands).v].props
             entries == [i \in 1..Len(props) |-> ArrayCell(<<Str(props[i][1]), props[i][2]>>)]
             heap1 == heap \o entries
             heap2 == Alloc(heap1, ArrayCell([i \in 1..Len(props) |-> Ref(Len(heap) + i)]))
         IN IF props = <<>>
            THEN Eval(heap2, Throw(Err("TypeError", "undefined is not iterable")))
            ELSE forEachCommand_refs(
                    WriteProp(heap2, funcs.v, props[1][1],
                              Fn("shellCommand", props[1][2])),
                    Tail(commands), funcs)

\* _createShellCommands: funcs = {} is a new object
_createShellCommands_refs(heap, commands) ==
    forEachCommand_refs(Alloc(heap, ObjectCell(<<>>)), heap[commands.v].items,
                        NewRef(heap))

(***************************************************************************)
(* Calls on arguments the caller holds: the caller's heap and the          *)
(* arguments, per function.                                                *)
(***************************************************************************)
HeapCall(fn, heap, args) == [fn |-> fn, heap |-> heap, args |-> args]

SharedObject == ObjectCell(<<<<"c", Num(1)>>>>)

RemoveDuplicatesHeapCalls ==
    {HeapCall("_removeDuplicates",
              <<ArrayCell(items), ArrayCell(ex), SharedObject>>,
              <<Ref(1), except>>) :
        items \in UNION {[1..n -> {Num(1), NaN, Ref(3)}] : n \in 0..MaxLen},
        ex \in {<<>>, <<Num(1)>>, <<Ref(3)>>},
        except \in {Undefined, Ref(2)}}

ObjectToArrayHeapCalls ==
    {HeapCall("_ObjectToArray",
              <<ObjectCell(m.v), ArrayCell(<<Num(1), Ref(4)>>),
                ObjectCell(<<<<"c", inner>>>>), SharedObject>>,
              <<obj>>) :
        m \in MappingsOver(KeyLists, {Num(1), Null, Ref(2), Ref(3)}),
        inner \in {Num(2), Ref(2)},
        obj \in {Ref(1), Ref(2), Null, Num(123)}}

ArrayToObjectHeapCalls ==
    {HeapCall("_ArrayToObject",
              <<ArrayCell(outer), ArrayCell(e), ArrayCell(f), SharedObject>>,
              <<Ref(1), keyIndex>>) :
        outer \in {<<>>, <<Ref(2)>>, <<Ref(2), Ref(3)>>, <<Ref(2), Ref(2)>>},
        e \in UNION {[1..n -> {Str("a"), Ref(4)}] : n \in 0..MaxLen},
        f \in UNION {[1..n -> {Str("a"), Ref(4)}] : n \in 0..MaxLen},
        keyIndex \in KeyIndexes}

ForEachInObjectHeapCalls ==
    {HeapCall("_forEachInObject",
              <<ObjectCell(m.v), ArrayCell(<<Num(1)>>)>>,
              <<Ref(1), Fn("record", Undefined)>>) :
        m \in MappingsOver(KeyLists, {Num(1), Ref(2)})}

CasePairs == {<<k, h>> : k \in {Num(1), Str("a")},
                         h \in {Fn("returns", Num(1)), Fn("throws", Num(3))}}
CaseHeapCalls ==
    {HeapCall("_case", <<ArrayCell(p), ArrayCell(q)>>, <<variable>> \o couples \o last) :
        p \in CasePairs, q \in CasePairs,
        variable \in {Num(1), Str("b"), Str("toString")},
        couples \in {<<>>, <<Ref(1)>>, <<Ref(1), Ref(2)>>, <<Ref(2), Ref(1)>>},
        last \in {<<>>} \cup {<<f>> : f \in Fallbacks}}

CommandPairs ==
    {<<>>} \cup {<<<<name, Str(line)>>>> : name \in CommandNames, line \in CommandLines}
CreateShellCommandsHeapCalls ==
    {HeapCall("_createShellCommands",
              <<ArrayCell(refs), ObjectCell(p), ObjectCell(q)>>,
              <<Ref(1)>>) :
        refs \in {<<>>, <<Ref(2)>>, <<Ref(2), Ref(3)>>},
        p \in CommandPairs, q \in CommandPairs}

HeapCalls ==
    RemoveDuplicatesHeapCalls \cup ObjectToArrayHeapCalls
    \cup ArrayToObjectHeapCalls \cup ForEachInObjectHeapCalls
    \cup CaseHeapCalls \cup CreateShellCommandsHeapCalls

\* the call returns or throws: the heap it leaves and its completion
Completed(eval) ==
    /\ libCall.kind = "heap"
    /\ ~libCall.called
    /\ libCall' = [libCall EXCEPT !.called = TRUE, !.heap = eval.heap,
                                  !.result = eval.result]
    /\ UNCHANGED <<caseCall, waits, fileCall, shell, invocations, procs>>

RemoveDuplicatesRefs ==
    /\ libCall.fn = "_removeDuplicates"
    /\ Completed(_removeDuplicates_refs(libCall.heap, libCall.args[1], libCall.args[2]))

ObjectToArrayRefs ==
    /\ libCall.fn = "_ObjectToArray"
    /\ Completed(_ObjectToArray_refs(libCall.heap, libCall.args[1]))

ArrayToObjectRefs ==
    /\ libCall.fn = "_ArrayToObject"
    /\ Completed(_ArrayToObject_refs(libCall.heap, libCall.args[1], libCall.args[2]))

ForEachInObjectRefs ==
    /\ libCall.fn = "_forEachInObject"
    /\ Completed(_forEachInObject_refs(libCall.heap, libCall.args[1], libCall.args[2]))

CaseRefs ==
    /\ libCall.fn = "_case"
    /\ Completed(_case_refs(libCall.heap, libCall.args[1], Tail(libCall.args)))

CreateShellCommandsRefs ==
    /\ libCall.fn = "_createShellCommands"
    /\ Completed(_createShellCommands_refs(libCall.heap, libCall.args[1]))

InitHeap ==
    /\ HostIdle
    /\ libCall \in {[kind |-> "heap", fn |-> c.fn, called |-> FALSE,
                     caller |-> c.heap, heap |-> c.heap, args |-> c.args,
                     result |-> NotCalled] : c \in HeapCalls}

NextHeap ==
    \/ RemoveDuplicatesRefs
    \/ ObjectToArrayRefs
    \/ ArrayToObjectRefs
    \/ ForEachInObjectRefs
    \/ CaseRefs
    \/ CreateShellCommandsRefs

SpecHeap == InitHeap /\ [][NextHeap]_vars

(***************************************************************************)
(* Frame properties.                                                       *)
(***************************************************************************)
\* C21: no library call changes a value the caller passed in: after
\* _removeDuplicates, _ObjectToArray, _ArrayToObject, _forEachInObject,
\* _case and _createShellCommands return or throw, every array and object
\* of the caller has the contents it had before the call.
C21_ArgumentsUnchanged ==
    (libCall.kind = "heap" /\ libCall.called) =>
        /\ Len(libCall.heap) >= Len(libCall.caller)
        /\ \A a \in 1..Len(libCall.caller) : libCall.heap[a] = libCall.caller[a]

\* _case has returned or thrown after pop, push and the assignments to the
\* accumulator, with the caller's pairs in place
C21_Witness ==
    /\ libCall.kind = "heap"
    /\ libCall.called
    /\ libCall.fn = "_case"
    /\ Len(libCall.args) = 3
    /\ Len(libCall.heap) = Len(libCall.caller) + 2
    /\ libCall.heap[Len(libCall.caller) + 2].props # <<>>

\* the references a cell holds
RefsOf(cell) ==
    IF cell.k = "array"
    THEN {cell.items[i].v : i \in {j \in 1..Len(cell.items) : IsRef(cell.items[j])}}
    ELSE {cell.props[i][2].v : i \in {j \in 1..Len(cell.props) : IsRef(cell.props[j][2])}}

\* the cells reached from the cell at a
RECURSIVE ReachableFrom(_, _)
ReachableFrom(heap, a) ==
    {a} \cup UNION {ReachableFrom(heap, b) : b \in RefsOf(heap[a])}

\* C22: the container returned by _removeDuplicates, _ObjectToArray and
\* _ArrayToObject, and every container nested in it, is newly allocated:
\* none of them is a container of the caller.
C22_FreshOutput ==
    (/\ libCall.kind = "heap"
     /\ libCall.called
     /\ libCall.fn \in {"_removeDuplicates", "_ObjectToArray", "_ArrayToObject"}
     /\ libCall.result.kind = "return"
     /\ IsRef(libCall.result.value))
    => \A a \in ReachableFrom(libCall.heap, libCall.result.value.v) :
          a > Len(libCall.caller)

====
